---- MODULE Spec2Model ----
(***************************************************************************)
(* A model of config-override (src/index.js): the path accessor _getset,   *)
(* the Configuration constructor, parse_env, add_files / add_config_file / *)
(* _find, merge, get and set.                                              *)
(*                                                                         *)
(* JavaScript strings are sequences of one-character strings, so that      *)
(* lower-casing, trimming, splitting and replacing are computed and not    *)
(* assumed.  JavaScript values are records                                 *)
(*     [kind, num, str, props]                                             *)
(* kind is the typeof-like tag; num holds a number (or 1/0 for a boolean); *)
(* str holds a string; props maps the own property names of an object or   *)
(* array (strings) to values.                                              *)
(***************************************************************************)
EXTENDS Integers, Sequences, FiniteSets, TLC

\* ------------------------------------------------------------------ bounds

\* set() calls made on one engine.
MaxSets == 2
\* Variables in the process environment.
MaxEnvVars == 2
\* Files present in the filesystem.
MaxFiles == 2

\* ----------------------------------------------------------------- strings

UpperCase == <<"A","B","C","D","E","F","G","H","I","J","K","L","M",
               "N","O","P","Q","R","S","T","U","V","W","X","Y","Z">>
LowerCase == <<"a","b","c","d","e","f","g","h","i","j","k","l","m",
               "n","o","p","q","r","s","t","u","v","w","x","y","z">>
DigitChars == <<"0","1","2","3","4","5","6","7","8","9">>

Range(s) == { s[i] : i \in DOMAIN s }

\* str.toLowerCase(), one character.
LcChar(c) ==
    IF c \in Range(UpperCase)
    THEN LowerCase[CHOOSE i \in DOMAIN UpperCase : UpperCase[i] = c]
    ELSE c

\* lc = str => str.toLowerCase()
lc(s) == [ i \in DOMAIN s |-> LcChar(s[i]) ]

\* rxNumber = /^\d+$/
rxNumber(s) == Len(s) > 0 /\ \A i \in DOMAIN s : s[i] \in Range(DigitChars)

DigitVal(c) == (CHOOSE i \in DOMAIN DigitChars : DigitChars[i] = c) - 1

\* +key, +value for a string of digits.
RECURSIVE ToNumber(_)
ToNumber(s) ==
    IF Len(s) = 0 THEN 0
    ELSE 10 * ToNumber(SubSeq(s, 1, Len(s) - 1)) + DigitVal(s[Len(s)])

\* String(n) for n >= 0: the property name a numeric key is stored under.
RECURSIVE NumToStr(_)
NumToStr(n) ==
    IF n < 10 THEN << DigitChars[n + 1] >>
    ELSE Append(NumToStr(n \div 10), DigitChars[(n % 10) + 1])

\* The index of the first occurrence of character c in s at or after i, or 0.
RECURSIVE IndexFrom(_, _, _)
IndexFrom(s, c, i) ==
    IF i > Len(s) THEN 0
    ELSE IF s[i] = c THEN i
    ELSE IndexFrom(s, c, i + 1)

\* str.split( c ) for a one-character separator: every piece.
RECURSIVE Split(_, _)
Split(s, c) ==
    LET i == IndexFrom(s, c, 1)
    IN  IF i = 0 THEN << s >>
        ELSE << SubSeq(s, 1, i - 1) >> \o Split(SubSeq(s, i + 1, Len(s)), c)

\* str.replace( from, to ) with a string pattern: the FIRST occurrence only.
ReplaceFirst(s, from, to) ==
    LET i == IndexFrom(s, from, 1)
    IN  IF i = 0 THEN s
        ELSE SubSeq(s, 1, i - 1) \o to \o SubSeq(s, i + 1, Len(s))

\* str.replace( new RegExp( from, 'g' ), to ): every occurrence.
ReplaceAll(s, from, to) ==
    [ i \in DOMAIN s |-> IF s[i] = from THEN to ELSE s[i] ]

\* str.trim()
RECURSIVE TrimLeft(_)
TrimLeft(s) ==
    IF Len(s) > 0 /\ s[1] = " " THEN TrimLeft(Tail(s)) ELSE s
RECURSIVE TrimRight(_)
TrimRight(s) ==
    IF Len(s) > 0 /\ s[Len(s)] = " " THEN TrimRight(SubSeq(s, 1, Len(s) - 1)) ELSE s
Trim(s) == TrimRight(TrimLeft(s))

\* str.startsWith( prefix )
StartsWith(s, prefix) ==
    Len(s) >= Len(prefix) /\ SubSeq(s, 1, Len(prefix)) = prefix

\* ------------------------------------------------------------------ values

Undefined == [ kind |-> "undefined", num |-> 0, str |-> <<>>, props |-> <<>> ]
Num(n)    == [ kind |-> "number",    num |-> n, str |-> <<>>, props |-> <<>> ]
Str(s)    == [ kind |-> "string",    num |-> 0, str |-> s,    props |-> <<>> ]
Bool(b)   == [ kind |-> "boolean",   num |-> IF b THEN 1 ELSE 0, str |-> <<>>, props |-> <<>> ]
Obj(p)    == [ kind |-> "object",    num |-> 0, str |-> <<>>, props |-> p ]
Arr(p)    == [ kind |-> "array",     num |-> 0, str |-> <<>>, props |-> p ]
EmptyObj  == Obj(<<>>)
EmptyArr  == Arr(<<>>)

IsContainer(v) == v.kind \in { "object", "array" }

\* ref[ key ]: an own property, undefined when absent (and on a number or boolean).
Prop(ref, key) ==
    IF IsContainer(ref) /\ key \in DOMAIN ref.props THEN ref.props[key] ELSE Undefined

\* ref[ key ] = v on an object or array.
WithProp(ref, key, v) ==
    [ ref EXCEPT !.props =
        [ k \in (DOMAIN ref.props) \cup { key } |-> IF k = key THEN v ELSE ref.props[k] ] ]

\* One own property { key: v }.
One(key, v) == Obj([ k \in { key } |-> v ])

\* ----------------------------------------------------------------- _getset

\* accessor.split( '.' ).map( key => rxNumber.test( key ) ? +key : key ):
\* each key with its typeof-number flag and the property name it addresses.
Keys(accessor) ==
    LET parts == Split(accessor, ".")
    IN  [ i \in DOMAIN parts |->
            IF rxNumber(parts[i])
            THEN [ isnum |-> TRUE,  name |-> NumToStr(ToNumber(parts[i])) ]
            ELSE [ isnum |-> FALSE, name |-> parts[i] ] ]

\* The forEach of _getset with three arguments, from key i on, on the node ref.
\* Under 'use strict' a property assignment on a number, boolean or string
\* throws a TypeError; a write that reaches such a value always ends in one
\* (in the creation of the missing node or in the final assignment), before
\* anything was changed.
RECURSIVE WriteKeys(_, _, _, _)
WriteKeys(ref, keys, i, value) ==
    IF ~IsContainer(ref) THEN [ threw |-> TRUE, node |-> ref ]
    ELSE
        LET key     == keys[i].name
            cur     == Prop(ref, key)
            created == IF cur.kind = "undefined"
                       THEN IF i < Len(keys) /\ keys[i + 1].isnum THEN EmptyArr ELSE EmptyObj
                       ELSE cur
        IN  IF i = Len(keys)
            THEN [ threw |-> FALSE, node |-> WithProp(ref, key, value) ]
            ELSE LET sub == WriteKeys(created, keys, i + 1, value)
                 IN  IF sub.threw
                     THEN [ threw |-> TRUE, node |-> ref ]
                     ELSE [ threw |-> FALSE, node |-> WithProp(ref, key, sub.node) ]

\* _getset( obj, accessor, value ): obj as the call leaves it, and whether the
\* call threw.  An empty accessor returns value and leaves obj alone.
GetSetWrite(obj, accessor, value) ==
    IF Len(accessor) = 0 THEN [ threw |-> FALSE, node |-> obj ]
    ELSE WriteKeys(obj, Keys(accessor), 1, value)

\* Reading tree.k1.k2... along the keys of accessor: undefined when a key is
\* absent or the value on the way is no object or array.
RECURSIVE ReadKeys(_, _, _)
ReadKeys(ref, keys, i) ==
    IF i > Len(keys) THEN ref
    ELSE ReadKeys(Prop(ref, keys[i].name), keys, i + 1)

ReadPath(tree, accessor) == ReadKeys(tree, Keys(accessor), 1)

\* ------------------------------------------------------------------- state

VARIABLES
    appName,            \* this.appName
    hyphenSubstitute,   \* this.opts.hyphenSubstitute
    delimiter,          \* this.opts.delimiter
    keyAppName,         \* this.keyAppName
    processEnv,         \* process.env: a sequence of [name, value], in Object.keys order
    envIdx,             \* parse_env: the number of variables the reduce has consumed
    envBefore,          \* the reduce's accumulator before the last variable consumed
    env,                \* this.env (the reduce's accumulator while parse_env runs)
    argv,               \* this.argv
    defaults,           \* this.defaults
    overrides,          \* this.overrides
    platform,           \* os.platform()
    home,               \* os.homedir(): << >> when it is falsy, else << dir >>
    cwd,                \* process.cwd()
    fs,                 \* the files of the filesystem: path -> content
    callIdx,            \* add_files: the add_config_file calls made
    lastCall,           \* the last add_config_file call: its arguments and what it did
    diagnostics,        \* this._diagnostics
    configFiles,        \* this.configFiles
    cookedConfigFiles,  \* this.cookedConfigFiles
    configList,         \* this.configList
    merged,             \* this.merged
    result,             \* what the last get() returned
    thrown,             \* whether the last call ended in a TypeError
    lastOp,             \* "new", "get" or "set": the last call made
    lastSet,            \* the arguments of the last set(), << >> before the first
    nsets               \* set() calls made

optVars    == << appName, hyphenSubstitute, delimiter, keyAppName >>
envVars    == << processEnv, envIdx, envBefore >>
fileVars   == << platform, home, cwd, fs, callIdx, lastCall, diagnostics, configFiles,
                 cookedConfigFiles >>
engineVars == << merged, result, lastOp, lastSet, nsets >>
vars       == << optVars, envVars, fileVars, engineVars, env, argv, defaults, overrides,
                 configList, thrown >>

Null == [ kind |-> "null", num |-> 0, str |-> <<>>, props |-> <<>> ]

\* An absolute path is the sequence of its components from the root on, the
\* root's own component first; a component is << name, extension >>.
RootDir == << << "/", "" >> >>

\* What the parts of the model that are not running hold.
NoEnvRun  == processEnv = << >> /\ envIdx = 0 /\ envBefore = EmptyObj
NoFileRun ==
    /\ platform = "linux" /\ home = << >> /\ cwd = RootDir /\ fs = << >>
    /\ callIdx = 0 /\ lastCall = << >> /\ diagnostics = << >>
    /\ configFiles = << >> /\ cookedConfigFiles = << >>
NoEngineRun ==
    /\ merged = Null /\ result = Undefined /\ lastOp = "new" /\ lastSet = << >> /\ nsets = 0

\* ------------------------------------------------------------- constructor

\* appName.replace( '-', this.opts.hyphenSubstitute )
HyphenReplaced(name, substitute) == ReplaceFirst(name, "-", substitute)

\* this.keyAppName = lc( appName.replace( '-', this.opts.hyphenSubstitute ) )
KeyAppName(name, substitute) == lc(HyphenReplaced(name, substitute))

\* cli[ this.keyAppName ] || {} : the sub-tree minimist left under the key; a
\* missing key, like a falsy value, gives {}.
CliSubTree(cli, key) ==
    LET v == Prop(cli, key)
    IN  IF v.kind \in { "undefined", "null" } \/ (v.kind = "number" /\ v.num = 0)
        THEN EmptyObj
        ELSE v

\* ------------------------------------------------------------------- merge

\* Object.assign( target, src ) for one source: the own properties of an
\* object or array replace the target's, whole; a number has none.
Assign(target, src) ==
    IF ~IsContainer(src) THEN target
    ELSE [ target EXCEPT !.props =
             [ k \in (DOMAIN target.props) \cup (DOMAIN src.props) |->
                 IF k \in DOMAIN src.props THEN src.props[k] ELSE target.props[k] ] ]

RECURSIVE AssignAll(_, _)
AssignAll(target, srcs) ==
    IF Len(srcs) = 0 THEN target
    ELSE AssignAll(Assign(target, Head(srcs)), Tail(srcs))

\* The argument list of Object.assign in merge(), after the target, with the
\* two highest places swapped.
MergeSourcesSwapped(d, files, e, a, o) == << d >> \o files \o << e, o, a >>

\* The argument list of Object.assign in merge(), after the target.
MergeSources(d, files, e, a, o) == << d >> \o files \o << e, a, o >>

\* merge(): Object.assign( {}, this.defaults, ...this.configList, this.env, this.argv, this.overrides )
Merge(d, files, e, a, o) == AssignAll(EmptyObj, MergeSources(d, files, e, a, o))

\* ----------------------------------------------------------------- get, set

\* get(): return this.merged || ( this.merged = this.merge() )
Get ==
    /\ LET m == IF merged.kind = "null"
                THEN Merge(defaults, configList, env, argv, overrides)
                ELSE merged
       IN  /\ merged' = m
           /\ result' = m
    /\ thrown' = FALSE
    /\ lastOp' = "get"
    /\ UNCHANGED << optVars, envVars, fileVars, env, argv, defaults, overrides,
                    configList, lastSet, nsets >>

\* What set( key, value ) leaves in this.merged: null, before the write.
SetMerged(m) == Null

\* set( key, value ): this.merged = null; _getset( this.overrides, key, value )
Set(key, value) ==
    /\ nsets < MaxSets
    /\ nsets' = nsets + 1
    /\ merged' = SetMerged(merged)
    /\ LET w == GetSetWrite(overrides, key, value)
       IN  /\ overrides' = w.node
           /\ thrown' = w.threw
    /\ lastOp' = "set"
    /\ lastSet' = << [ key |-> key, value |-> value, threw |-> thrown' ] >>
    /\ UNCHANGED << optVars, envVars, fileVars, env, argv, defaults, configList, result >>

\* ------------------------------------------------------------ engine inputs

AppNames == { <<"A","p","p">>, <<"a","-","b">>, <<"a","-","b","-","c">> }
HyphenSubstitutes == { "_", "-" }

kx == <<"x">>
ka == <<"a">>
kp == <<"p">>
kq == <<"q">>

\* What minimist can leave: nothing for the application, or a sub-tree under a key.
CliKeys == { <<"a","p","p">>, <<"a","_","b">>, <<"a","_","b","_","c">> }
CliInputs == { EmptyObj } \cup { One(k, One(kx, Num(4))) : k \in CliKeys }

DefaultsInputs == { EmptyObj, Obj((kx :> Num(1)) @@ (ka :> One(kp, Num(1)))) }
FileInputs     == { << >>, << One(kx, Num(2)), One(ka, One(kq, Num(6))) >> }
EnvInputs      == { EmptyObj, Obj((kx :> Num(3)) @@ (ka :> One(kq, Num(2)))) }

SetKeys   == { << >>, <<"x">>, <<"a">>, <<"a",".","q">>, <<"a",".","0">> }
SetValues == { Num(5), One(kq, Num(7)) }

\* The engine as the constructor leaves it, for the inputs above.
Init ==
    /\ appName \in AppNames
    /\ hyphenSubstitute \in HyphenSubstitutes
    /\ delimiter = "_"
    /\ keyAppName = KeyAppName(appName, << hyphenSubstitute >>)
    /\ NoEnvRun
    /\ NoFileRun
    /\ env \in EnvInputs
    /\ \E cli \in CliInputs : argv = CliSubTree(cli, keyAppName)
    /\ defaults \in DefaultsInputs
    /\ overrides = EmptyObj
    /\ configList \in FileInputs
    /\ merged = Merge(defaults, configList, env, argv, overrides)
    /\ result = Undefined
    /\ thrown = FALSE
    /\ lastOp = "new"
    /\ lastSet = << >>
    /\ nsets = 0

Next ==
    \/ Get
    \/ \E key \in SetKeys, value \in SetValues : Set(key, value)

Spec == Init /\ [][Next]_vars

\* ------------------------------------------------------------ engine claims

\* The own property names of a source, as Object.assign sees them.
OwnKeys(src) == IF IsContainer(src) THEN DOMAIN src.props ELSE {}

\* The sources in the order of precedence, lowest first.
Sources == << defaults >> \o configList \o << env, argv, overrides >>

\* tree is the top-level shallow fold of the sources: it has the keys some
\* source has, and under each the whole value of the highest source having it.
IsShallowFold(tree) ==
    /\ tree.kind = "object"
    /\ DOMAIN tree.props = UNION { OwnKeys(Sources[i]) : i \in DOMAIN Sources }
    /\ \A k \in DOMAIN tree.props :
         LET top == CHOOSE i \in DOMAIN Sources :
                        /\ k \in OwnKeys(Sources[i])
                        /\ \A j \in DOMAIN Sources : k \in OwnKeys(Sources[j]) => j <= i
         IN  tree.props[k] = Sources[top].props[k]

\* C1: what get() returns is the top-level shallow fold of defaults, the file
\* sources in discovery order, environment, cli and overrides: each top-level
\* key holds the whole value of the highest-precedence source that has the key,
\* and a cached result is never anything else.
C1_GetIsShallowFold ==
    /\ lastOp = "get" => IsShallowFold(result)
    /\ merged.kind # "null" => IsShallowFold(merged)

\* C1 witness: a get() after a set() where four sources hold x and the
\* overrides win, and a is the environment's whole { q: 2 }.
C1_Witness ==
    /\ lastOp = "get" /\ nsets > 0
    /\ kx \in OwnKeys(defaults) /\ kx \in OwnKeys(env) /\ kx \in OwnKeys(argv)
    /\ kx \in OwnKeys(overrides) /\ Len(configList) > 0
    /\ Prop(result, kx) = Num(5)
    /\ Prop(defaults, ka) = One(kp, Num(1))
    /\ ka \notin OwnKeys(argv) /\ ka \notin OwnKeys(overrides)
    /\ Prop(result, ka) = One(kq, Num(2))

\* C2 (as claimed): the get() after a set( path, v ) with a non-empty path
\* returns a tree in which reading path yields v.
C2_SetThenGetReadsValue ==
    (lastOp = "get" /\ Len(lastSet) = 1 /\ Len(lastSet[1].key) > 0)
        => ReadPath(result, lastSet[1].key) = lastSet[1].value

\* C7 (as claimed): no write of the path accessor raises an error.
C7_WriteNeverThrows == thrown = FALSE

\* C8 (as claimed): the namespace key is the application name lower-cased with
\* every hyphen replaced by the substitute.
C8_EveryHyphenReplaced ==
    keyAppName = lc(ReplaceAll(appName, "-", hyphenSubstitute))

\* --------------------------------------------------------------- parse_env

\* value.trim() with nothing trimmed.
EnvTrimNothing(value) == value

\* value = value.trim()
EnvTrim(value) == Trim(value)

\* rxNumber.test( value ) ? +value : value === 'true' ? true : value === 'false' ? false : value
\* (an undefined value stays undefined)
Coerce(value) ==
    IF value.kind # "string" THEN value
    ELSE IF rxNumber(value.str) THEN Num(ToNumber(value.str))
    ELSE IF value.str = <<"t","r","u","e">> THEN Bool(TRUE)
    ELSE IF value.str = <<"f","a","l","s","e">> THEN Bool(FALSE)
    ELSE value

\* The body of the reduce up to the write, for the variable name = value:
\* whether the variable is taken, and the accessor and raw value if it is.
\*   key === keyname               : [ key, value ] = value.split( '=' )
\*   key.startsWith( keyname + delim ) : key = key.substr( keyname.length + 1 )
EnvKeyValue(name, rawValue, keyname, delim) ==
    LET key   == lc(name)
        value == EnvTrim(rawValue)
        parts == Split(value, "=")
        exact == key = keyname
        pref  == StartsWith(key, keyname \o << delim >>)
        key1  == IF exact THEN parts[1] ELSE SubSeq(key, Len(keyname) + 2, Len(key))
        val1  == IF exact
                 THEN IF Len(parts) >= 2 THEN Str(parts[2]) ELSE Undefined
                 ELSE Str(value)
    IN  [ taken |-> exact \/ pref,
          key   |-> IF delim # "." THEN ReplaceAll(key1, delim, ".") ELSE key1,
          value |-> val1 ]

\* One round of the reduce in parse_env: the variable at envIdx + 1.  A
\* TypeError in _getset leaves parse_env, and the constructor, at once.
ParseEnvStep ==
    /\ envIdx < Len(processEnv)
    /\ ~thrown
    /\ LET var == processEnv[envIdx + 1]
           kv  == EnvKeyValue(var.name, var.value, keyAppName, delimiter)
           w   == IF kv.taken
                  THEN GetSetWrite(env, kv.key, Coerce(kv.value))
                  ELSE [ threw |-> FALSE, node |-> env ]
       IN  /\ env' = w.node
           /\ thrown' = w.threw
    /\ envBefore' = env
    /\ envIdx' = envIdx + 1
    /\ UNCHANGED << optVars, processEnv, fileVars, engineVars, argv, defaults, overrides,
                    configList >>

\* ------------------------------------------------------------- env inputs

EnvNames ==
    { <<"A","P","P","_","A">>, <<"a","p","p","_","A">>, <<"A","P","P","_","A","_","B">>,
      <<"A","P","P">>, <<"A","P","P","X">>, <<"A","P","P","_">>, <<"A","P","P",".","A">> }

EnvValues ==
    { <<"4","2">>, <<"t","r","u","e">>, <<"f","a","l","s","e">>, <<" ","b","o","b">>,
      <<"a",".","b","=","x","=","y">>, <<"a","_","b","=","7">> }

EnvPairs == [ name : EnvNames, value : EnvValues ]

\* process.env: at most MaxEnvVars variables, no name twice.
ProcessEnvs ==
    UNION { { e \in [ 1..n -> EnvPairs ] :
                \A i, j \in 1..n : i # j => e[i].name # e[j].name } : n \in 0..MaxEnvVars }

\* The constructor as it enters parse_env( process.env, this.opts.delimiter ).
InitEnv ==
    /\ appName = <<"A","p","p">>
    /\ hyphenSubstitute = "_"
    /\ delimiter \in { "_", "." }
    /\ keyAppName = KeyAppName(appName, << hyphenSubstitute >>)
    /\ processEnv \in ProcessEnvs
    /\ envIdx = 0
    /\ envBefore = EmptyObj
    /\ env = EmptyObj
    /\ argv = EmptyObj /\ defaults = EmptyObj /\ overrides = EmptyObj
    /\ configList = << >>
    /\ thrown = FALSE
    /\ NoFileRun
    /\ NoEngineRun

NextEnv == ParseEnvStep

SpecEnv == InitEnv /\ [][NextEnv]_vars

\* -------------------------------------------------------------- env claims

\* The last variable the reduce consumed.
LastVar == processEnv[envIdx]

IsScalar(v) == v.kind \in { "number", "boolean", "string" }

\* A number, boolean or string sits in tree at a proper prefix of the accessor.
ScalarOnPath(tree, accessor) ==
    LET keys == Keys(accessor)
    IN  \E n \in 1..(Len(keys) - 1) : IsScalar(ReadKeys(tree, SubSeq(keys, 1, n), 1))

\* The coercion the specification states, of a string.
Coerced(s) ==
    IF rxNumber(s) THEN Num(ToNumber(s))
    ELSE IF s = <<"t","r","u","e">> THEN Bool(TRUE)
    ELSE IF s = <<"f","a","l","s","e">> THEN Bool(FALSE)
    ELSE Str(s)

\* name, lower-cased, starts with namespace + delimiter.
HasPrefix(name) == StartsWith(lc(name), keyAppName \o << delimiter >>)

\* The accessor of a prefixed variable: the lower-cased name without the
\* prefix, each delimiter replaced by '.'.
PrefixedPath(name) ==
    ReplaceAll(SubSeq(lc(name), Len(keyAppName) + 2, Len(name)), delimiter, ".")

C5_SplitOnceAtFirstEquals ==
    (envIdx > 0 /\ ~thrown /\ lc(LastVar.name) = keyAppName
       /\ IndexFrom(Trim(LastVar.value), "=", 1) > 1) =>
        LET value == Trim(LastVar.value)
            eq    == IndexFrom(value, "=", 1)
            key   == ReplaceAll(SubSeq(value, 1, eq - 1), delimiter, ".")
        IN  ReadPath(env, key) = Coerced(SubSeq(value, eq + 1, Len(value)))

\* ------------------------------------------------------------------- files

\* this.opts.extensions: defaultOptions.extensions.
Extensions == << "", ".json", ".json5", ".ini", ".yml", ".yaml", "conf" >>

\* path.join( dir, ...parts )
Join(dir, parts) == dir \o parts

\* path.dirname( dir ): the root is its own parent.
Dirname(dir) == IF Len(dir) <= 1 THEN dir ELSE SubSeq(dir, 1, Len(dir) - 1)

\* A directory or extension-less file name as a component.
Comp(name) == << name, "" >>

\* file + x, for a base path file (which ends without an extension).
WithExt(file, x) == [ file EXCEPT ![Len(file)] = << @[1], x >> ]

\* p is a directory: it lies above a file, or is the working or home directory
\* or above them.
IsDir(p) ==
    \/ \E f \in DOMAIN fs : Len(f) > Len(p) /\ SubSeq(f, 1, Len(p)) = p
    \/ \E d \in { cwd } \cup Range(home) : Len(d) >= Len(p) /\ SubSeq(d, 1, Len(p)) = p

\* exists( fn ): fs.statSync succeeds, for a file as for a directory.
Exists(p) == p \in DOMAIN fs \/ IsDir(p)

\* get_file( filename ) is truthy: the file can be read (a directory cannot)
\* and is not empty.
ReadsContent(p) == p \in DOMAIN fs /\ fs[p] # "empty"

\* The selected parser returns a truthy tree or anything it returns.
ParsesOrReturns(content) == content \in { "good", "falsy" }

\* The selected parser returns a truthy tree for the content: it neither
\* throws (parsed = null) nor returns a falsy value.  Which parser is selected
\* (by extension or by sniffing) is part of what the content's kind abstracts.
ParsesToTree(content) == content = "good"

\* What the parsers give for a good file.
FileTree == One(kx, Num(2))

\* this._diagnostics.push( filename ) left out.
DirectProbeUnrecorded(diag, filename) == diag

\* this._diagnostics.push( filename ) of the direct probe.
DirectProbe(diag, filename) == Append(diag, filename)

\* _find( start, rel ): the ledger after the probes, and the path returned
\* (<< >> for null).
RECURSIVE Find(_, _, _)
Find(start, rel, diag) ==
    LET file  == Join(start, rel)
        diag1 == Append(diag, file)
    IN  IF Exists(file) /\ file \notin Range(configFiles)
        THEN [ diag |-> diag1, found |-> << file >> ]
        ELSE IF Dirname(start) # start
        THEN Find(Dirname(start), rel, diag1)
        ELSE [ diag |-> diag1, found |-> << >> ]

\* ~this.configFiles.indexOf( path.sep === '\\' ? filename.replace( '\\', '\\\\' ) : filename ):
\* where the separator is a backslash the string compared has its first
\* backslash doubled, and no entry of the ledger equals it.
InConfigFiles(filename) == platform # "win32" /\ filename \in Range(configFiles)

\* The for loop of add_config_file from extension i on: the probed ledger, the
\* file loaded (<< >> for none) and what find() returned on the way.
RECURSIVE TryExtensions(_, _, _, _, _)
TryExtensions(file, findIt, i, diag, found) ==
    IF i > Len(Extensions) THEN [ diag |-> diag, loaded |-> << >>, found |-> found ]
    ELSE
        LET candidate == WithExt(file, Extensions[i])
            looked    == IF findIt
                         THEN Find(cwd, candidate, diag)
                         ELSE [ diag  |-> DirectProbe(diag, candidate),
                                found |-> << candidate >> ]
            found1    == IF findIt THEN found \o looked.found ELSE found
        IN  IF \/ looked.found = << >>
               \/ ~Exists(looked.found[1])
               \/ InConfigFiles(looked.found[1])
               \/ ~ReadsContent(looked.found[1])
               \/ ~ParsesToTree(fs[looked.found[1]])
            THEN TryExtensions(file, findIt, i + 1, looked.diag, found1)
            ELSE [ diag |-> looked.diag, loaded |-> looked.found, found |-> found1 ]

\* add_files(): the add_config_file calls it makes, in order.
EtcDir == Join(RootDir, << Comp("etc") >>)
ShapesAll ==
    << << Comp(".config"), Comp("app"), Comp("config") >>, << Comp(".config"), Comp("app") >>,
       << Comp(".app"), Comp("config") >>, << Comp(".app") >>, << Comp(".apprc") >>,
       << Comp("app") >> >>
ShapesEtc == << << Comp("app"), Comp("config") >>, << Comp("apprc") >>, << Comp("app") >> >>
ShapesSearch == << << Comp(".apprc") >>, << Comp(".app") >>, << Comp("app") >> >>

AddFilesCalls ==
    (IF platform # "win32"
     THEN [ i \in DOMAIN ShapesEtc |-> [ file |-> Join(EtcDir, ShapesEtc[i]), findIt |-> FALSE ] ]
     ELSE << >>)
    \o
    (IF home # << >>
     THEN [ i \in DOMAIN ShapesAll |-> [ file |-> Join(home[1], ShapesAll[i]), findIt |-> FALSE ] ]
          \o [ i \in DOMAIN ShapesAll |-> [ file |-> Join(cwd, ShapesAll[i]), findIt |-> FALSE ] ]
     ELSE << >>)
    \o [ i \in DOMAIN ShapesSearch |-> [ file |-> ShapesSearch[i], findIt |-> TRUE ] ]

\* add_config_file( file, findIt ), whole, for the next call of add_files.
AddConfigFile(findIt) ==
    /\ callIdx < Len(AddFilesCalls)
    /\ AddFilesCalls[callIdx + 1].findIt = findIt
    /\ callIdx' = callIdx + 1
    /\ LET file    == AddFilesCalls[callIdx + 1].file
           skipped == file \in Range(configFiles)
           run     == IF skipped
                      THEN [ diag |-> diagnostics, loaded |-> << >>, found |-> << >> ]
                      ELSE TryExtensions(file, findIt, 1, diagnostics, << >>)
       IN  /\ diagnostics' = run.diag
           /\ IF run.loaded = << >>
              THEN UNCHANGED << configList, configFiles, cookedConfigFiles >>
              ELSE /\ configList' = Append(configList, FileTree)
                   /\ configFiles' = Append(configFiles, file)
                   /\ cookedConfigFiles' = Append(cookedConfigFiles, run.loaded[1])
           /\ lastCall' = << [ file |-> file, findIt |-> findIt, skipped |-> skipped,
                               found |-> run.found, probedBefore |-> Len(diagnostics),
                               cookedBefore |-> cookedConfigFiles,
                               filesBefore |-> configFiles ] >>
    /\ thrown' = FALSE
    /\ UNCHANGED << optVars, envVars, engineVars, platform, home, cwd, fs, env, argv,
                    defaults, overrides >>

\* add_cfg = fn => this.add_config_file( fn )
AddCfg == AddConfigFile(FALSE)

\* search = fn => this.add_config_file( fn, true )
Search == AddConfigFile(TRUE)

\* ------------------------------------------------------------- file inputs

HomeDir == Join(RootDir, << Comp("h") >>)
WorkDir == Join(HomeDir, << Comp("w") >>)

Layouts ==
    { [ platform |-> "linux", home |-> << HomeDir >>, cwd |-> WorkDir ],
      [ platform |-> "linux", home |-> << HomeDir >>, cwd |-> HomeDir ],
      [ platform |-> "linux", home |-> << >>,         cwd |-> WorkDir ],
      [ platform |-> "linux", home |-> << HomeDir >>, cwd |-> RootDir ],
      [ platform |-> "win32", home |-> << HomeDir >>, cwd |-> WorkDir ] }

\* The paths a file may sit at, for a working directory.
CandidateFiles(dir) ==
    { Join(dir, << << ".apprc", "" >> >>),
      Join(dir, << << ".apprc", ".json" >> >>),
      Join(Dirname(dir), << << ".apprc", ".json" >> >>),
      Join(HomeDir, << Comp(".config"), Comp("app"), Comp("config") >>),
      Join(HomeDir, << Comp(".config"), << "app", ".json" >> >>),
      Join(EtcDir, << << "apprc", ".yml" >> >>),
      Join(RootDir, << << "app", ".yml" >> >>) }

\* What a file holds, as its parser takes it: nothing, text the parser throws
\* on, text that parses to a falsy value, text that parses to a tree.
FileContents == { "empty", "malformed", "falsy", "good" }

\* The filesystems with at most MaxFiles of the candidate files.
Filesystems(dir) ==
    UNION { [ S -> FileContents ] :
              S \in { T \in SUBSET CandidateFiles(dir) : Cardinality(T) <= MaxFiles } }

\* The constructor as it enters add_files().
InitFiles ==
    /\ appName = <<"a","p","p">>
    /\ hyphenSubstitute = "_"
    /\ delimiter = "_"
    /\ keyAppName = KeyAppName(appName, << hyphenSubstitute >>)
    /\ NoEnvRun
    /\ NoEngineRun
    /\ env = EmptyObj /\ argv = EmptyObj /\ defaults = EmptyObj /\ overrides = EmptyObj
    /\ \E l \in Layouts :
         /\ platform = l.platform /\ home = l.home /\ cwd = l.cwd
         /\ fs \in Filesystems(l.cwd)
    /\ callIdx = 0
    /\ lastCall = << >>
    /\ diagnostics = << >>
    /\ configFiles = << >>
    /\ cookedConfigFiles = << >>
    /\ configList = << >>
    /\ thrown = FALSE

NextFiles == AddCfg \/ Search

SpecFiles == InitFiles /\ [][NextFiles]_vars

\* ------------------------------------------------------------- file claims

NoDuplicates(seq) == \A i, j \in DOMAIN seq : i # j => seq[i] # seq[j]

\* What the last add_config_file call appended to the ledgers.
LoadedByLastCall ==
    SubSeq(cookedConfigFiles, Len(lastCall[1].cookedBefore) + 1, Len(cookedConfigFiles))
ProbedByLastCall ==
    SubSeq(diagnostics, lastCall[1].probedBefore + 1, Len(diagnostics))

\* The file exists, can be read and parses to a tree.
Loadable(p) == p \in DOMAIN fs /\ fs[p] = "good"

\* The working directory and the directories above it.
Ancestors == { SubSeq(cwd, 1, n) : n \in 1..Len(cwd) }

\* The paths of name rel at or above the working directory that exist and
\* were not in the base-path ledger when the last call began.
Hits(rel) ==
    { d \in Ancestors : /\ Exists(Join(d, rel))
                        /\ Join(d, rel) \notin Range(lastCall[1].filesBefore) }

\* What the upward search for rel meets first: the hit nearest the working
\* directory, as a set of at most one path.
FirstHit(rel) ==
    { Join(d, rel) : d \in { e \in Hits(rel) : \A o \in Hits(rel) : Len(o) <= Len(e) } }

\* The file the last call's extension variant i resolves to, if any.
Resolved(i) ==
    LET candidate == WithExt(lastCall[1].file, Extensions[i])
    IN  IF lastCall[1].findIt THEN FirstHit(candidate) ELSE { candidate }

\* The extension variants of the last call that resolve to a loadable file.
LoadableVariants == { i \in DOMAIN Extensions : \E p \in Resolved(i) : Loadable(p) }

\* C3 (as claimed): the loaded-files ledger never holds the same path twice.
C3_NoPathLoadedTwice == NoDuplicates(cookedConfigFiles)

C9_FindReturnsUnloadedPath ==
    (lastCall # << >> /\ lastCall[1].findIt) =>
        /\ \A i \in DOMAIN ProbedByLastCall :
             \E d \in Ancestors, x \in DOMAIN Extensions :
                 ProbedByLastCall[i] = Join(d, WithExt(lastCall[1].file, Extensions[x]))
        /\ \A i \in DOMAIN lastCall[1].found :
             /\ lastCall[1].found[i] \in Range(ProbedByLastCall)
             /\ Exists(lastCall[1].found[i])
             /\ lastCall[1].found[i] \notin Range(lastCall[1].cookedBefore)

\* C10: every path in the loaded-files ledger is in the probed-paths ledger.
C10_LoadedWereProbed == Range(cookedConfigFiles) \subseteq Range(diagnostics)

\* C10 witness: one file loaded by a direct probe and one by the upward search.
C10_Witness ==
    /\ lastCall # << >>
    /\ lastCall[1].findIt
    /\ LoadedByLastCall # << >>
    /\ lastCall[1].cookedBefore # << >>
    /\ LoadedByLastCall[1] \notin Range(lastCall[1].cookedBefore)

====
